---- MODULE Spec2Model ----
(***************************************************************************)
(* The search endpoint of the STAC API (CoreCrudClient.post_search): the   *)
(* compilation of a search request into a filtered, ordered query, the     *)
(* keyset page taken from it (sqlakeyset get_page), the pagination tokens  *)
(* and the response envelope.                                              *)
(***************************************************************************)
EXTENDS Integers, Sequences, FiniteSets, TLC

(* ------------------------------ bounds -------------------------------- *)
MaxItems == 3     \* items in the store
MaxLimit == 2     \* largest `limit` a request carries
MaxSteps == 3     \* page fetches of one pagination session
MaxInserts == 1   \* inserts of the ingestion path during one behaviour
MaxRequests == 3  \* HTTP requests the application serves concurrently

Ids == {1, 2}                 \* item identifiers, ordered as the strings are
Colls == {"c1", "c2"}         \* collection identifiers
Times == {1, 2}               \* item timestamps
Boxes == {<<0, 0, 1, 1>>, <<2, 2, 3, 3>>}   \* (minx, miny, maxx, maxy)
Gsds == {1, 2}                \* values of the queryable property gsd

(* The open end of a datetime interval, ".." in the request. *)
OPEN == 0

(* store is the item table post_search reads; request, response, queries, *)
(* writes and fault are those of the last call of post_search; hist is    *)
(* what the client of a pagination session holds.                         *)
VARIABLES
  store,       \* the item table: a set of item rows
  extensions,  \* the enabled API extensions (a deployment setting)
  request,     \* the search request of the last call of post_search
  response,    \* what that call gave: an envelope or a DatabaseError
  hist,        \* the pages the client got in its current pagination session
  queries,     \* store queries issued by the last call
  writes,      \* store writes issued by the last call
  fault,       \* the step at which the store failed in the last call
  nInserts,    \* inserts done by the ingestion path
  url,         \* the URL of each HTTP request the application received
  pc,          \* where each HTTP request is in create_db_connection
  outcome,     \* how the handler of each HTTP request finished
  reader,      \* create_db_connection's local reader, per request
  writer,      \* create_db_connection's local writer, per request
  READER,      \* the context variable READER, per request context
  WRITER,      \* the context variable WRITER, per request context
  sessions,    \* the database sessions created so far
  closed       \* those of them that were closed

searchvars == <<store, extensions, request, response, hist, queries, writes, fault, nInserts>>

mwvars == <<url, pc, outcome, reader, writer, READER, WRITER, sessions, closed>>

vars == <<searchvars, mwvars>>

(* ------------------------------ the store ----------------------------- *)
Item == [id : Ids, coll : Colls, dt : Times, bbox : Boxes, gsd : Gsds]

(* Items are unique by (identifier, collection). *)
ValidStore(s) ==
  \A i, j \in s : (i.id = j.id /\ i.coll = j.coll) => i = j

(* --------------------------- search requests -------------------------- *)
(* An absent (None) field of a request is the empty sequence or set.      *)
NoToken == <<>>

(* search_request.polygon() and ST_Intersects: the item's geometry is the *)
(* rectangle of its bbox, and two rectangles intersect when their         *)
(* projections overlap on both axes.                                      *)
ST_Intersects(g, b) ==
  /\ g[1] <= b[3] /\ b[1] <= g[3]
  /\ g[2] <= b[4] /\ b[2] <= g[4]

(* table.get_field(name): the column a field name resolves to. *)
get_field(item, name) ==
  CASE name = "datetime" -> item.dt
    [] name = "id" -> item.id
    [] name = "gsd" -> item.gsd

(* op.operator(field, value) for the operators of a query expression. *)
operator(op, a, b) ==
  CASE op = "eq" -> a = b
    [] op = "lt" -> a < b
    [] op = "gt" -> a > b

(* Filter by collection: the join with the collection table keeps every   *)
(* item (each has one collection), the or_ keeps the named collections.   *)
CollectionFilter(rows, req) ==
  IF req.collections # {}
    THEN {r \in rows : \E c \in req.collections : r.coll = c}
    ELSE rows

(* The ORDER BY of the query: the sortby fields, then id; datetime        *)
(* descending, then id, without sortby.                                   *)
order_by(req) ==
  IF req.sortby # <<>>
    THEN Append(req.sortby, [field |-> "id", dir |-> "asc"])
    ELSE <<[field |-> "datetime", dir |-> "desc"], [field |-> "id", dir |-> "asc"]>>

(* The ids branch calls order_by(table.id) on the ordered query, which    *)
(* appends one more id column to the ORDER BY.                            *)
ids_order_by(req) == Append(order_by(req), [field |-> "id", dir |-> "asc"])

(* sa.or_(table.id == i for i in ids) *)
id_filter(rows, ids) ==
  {r \in rows : \E k \in 1..Len(ids) : r.id = ids[k]}

SpatialFilter(rows, req) ==
  IF req.bbox # <<>>
    THEN {r \in rows : ST_Intersects(r.bbox, req.bbox)}
    ELSE rows

(* The temporal filters, applied one after the other as the code does.    *)
BetweenFilter(rows, d) ==
  IF d[1] # OPEN /\ d[2] # OPEN
    THEN {r \in rows : d[1] <= r.dt /\ r.dt <= d[2]}
    ELSE rows

(* The start filter with > in place of >=. *)
AfterStartFilter_Strict(rows, d) ==
  IF d[1] # OPEN THEN {r \in rows : r.dt > d[1]} ELSE rows

AfterStartFilter(rows, d) ==
  IF d[1] # OPEN THEN {r \in rows : r.dt >= d[1]} ELSE rows

BeforeEndFilter(rows, d) ==
  IF d[2] # OPEN THEN {r \in rows : r.dt <= d[2]} ELSE rows

TemporalFilter(rows, req) ==
  IF req.datetime # <<>>
    THEN BeforeEndFilter(AfterStartFilter(BetweenFilter(rows, req.datetime),
                                          req.datetime), req.datetime)
    ELSE rows

(* Query fields: every (field, op, value) of the query is one more filter. *)
QueryFilter(rows, req) ==
  {r \in rows : \A k \in 1..Len(req.query) :
     operator(req.query[k].op, get_field(r, req.query[k].field), req.query[k].value)}

(* The rows the compiled predicate of a request selects. *)
IdsQuery(st, req) == id_filter(CollectionFilter(st, req), req.ids)

SearchQuery(st, req) ==
  QueryFilter(TemporalFilter(SpatialFilter(CollectionFilter(st, req), req), req), req)

(* The ids branch taken after the spatial, temporal and query filters. *)
Matching_FiltersFirst(st, req) ==
  IF req.ids # <<>> THEN id_filter(SearchQuery(st, req), req.ids) ELSE SearchQuery(st, req)

Matching(st, req) ==
  IF req.ids # <<>> THEN IdsQuery(st, req) ELSE SearchQuery(st, req)

OrderCols(req) ==
  IF req.ids # <<>> THEN ids_order_by(req) ELSE order_by(req)

(* ------------------------- keyset pagination -------------------------- *)
(* The marker of a row: its values of the ORDER BY columns. *)
Marker(item, ocols) ==
  [k \in 1..Len(ocols) |-> get_field(item, ocols[k].field)]

(* Backwards, every ORDER BY column is reversed. *)
Reversed(ocols) ==
  [k \in 1..Len(ocols) |->
     [field |-> ocols[k].field,
      dir |-> IF ocols[k].dir = "asc" THEN "desc" ELSE "asc"]]

(* where_condition_for_page: marker m lies strictly after place p in the  *)
(* ordering: they differ first at a column where m is on the far side.    *)
After(m, p, ocols) ==
  \E k \in 1..Len(ocols) :
    /\ \A j \in 1..(k - 1) : m[j] = p[j]
    /\ IF ocols[k].dir = "asc" THEN m[k] > p[k] ELSE m[k] < p[k]

(* The orders in which the database may return the rows of an ordered     *)
(* query: rows that agree on every ORDER BY column come in any order.     *)
RECURSIVE SortedSeqs(_, _)
SortedSeqs(rows, ocols) ==
  IF rows = {} THEN {<<>>}
  ELSE UNION {
         {<<m>> \o t : t \in SortedSeqs(rows \ {m}, ocols)} :
           m \in {r \in rows :
                    \A o \in rows : ~After(Marker(r, ocols), Marker(o, ocols), ocols)}}

Min(a, b) == IF a < b THEN a ELSE b

Reverse(sq) == [k \in 1..Len(sq) |-> sq[Len(sq) + 1 - k]]

(* serialize_bookmark / unserialize_bookmark: the direction sign, then    *)
(* the values of the place.                                               *)
serialize_bookmark(place, backwards) ==
  <<IF backwards THEN "<" ELSE ">">> \o place

unserialize_place(bookmark) == Tail(bookmark)

unserialize_backwards(bookmark) == Head(bookmark) = "<"

(* Paging: the page cut from the fetched rows (at most per_page + 1, in   *)
(* query order), with its four markers.  place = <<>> is no place (None). *)
Paging(fetched, per_page, ocols, backwards, place) ==
  LET kept == SubSeq(fetched, 1, Min(per_page, Len(fetched)))
      marker_0 == place
      marker_1 == IF kept # <<>> THEN Marker(kept[1], ocols) ELSE <<>>
      marker_n == IF kept # <<>> THEN Marker(kept[Len(kept)], ocols) ELSE <<>>
      marker_nplus1 ==
        IF Len(fetched) > per_page THEN Marker(fetched[per_page + 1], ocols) ELSE <<>>
      before == IF backwards THEN marker_nplus1 ELSE marker_0
      first == IF backwards THEN marker_n ELSE marker_1
      last == IF backwards THEN marker_1 ELSE marker_n
      beyond == IF backwards THEN marker_0 ELSE marker_nplus1
  IN [rows |-> IF backwards THEN Reverse(kept) ELSE kept,
      has_next |-> beyond # <<>>,
      has_previous |-> before # <<>>,
      bookmark_next |->
        serialize_bookmark(IF last # <<>> THEN last ELSE before, FALSE),
      bookmark_previous |->
        serialize_bookmark(IF first # <<>> THEN first ELSE beyond, TRUE)]

(* get_page(query, per_page, page): the pages the call may give, one for  *)
(* each order the database may return tied rows in.  page = <<>> is the   *)
(* first page (page=False).                                               *)
get_page(rows, ocols, per_page, page) ==
  LET backwards == IF page # <<>> THEN unserialize_backwards(page) ELSE FALSE
      place == IF page # <<>> THEN unserialize_place(page) ELSE <<>>
      cols == IF backwards THEN Reversed(ocols) ELSE ocols
      cand == IF place # <<>>
                THEN {r \in rows : After(Marker(r, ocols), place, cols)}
                ELSE rows
  IN {Paging(SubSeq(sq, 1, Min(per_page + 1, Len(sq))), per_page, ocols, backwards, place) :
        sq \in SortedSeqs(cand, cols)}

(* ------------------------- pagination tokens -------------------------- *)
(* PaginationTokenClient: a token is an opaque encoding of the bookmark.  *)
TokenInsert(keyset) == <<"token">> \o keyset

TokenGet(token) == Tail(token)

(* ------------------------------ post_search --------------------------- *)
(* The steps of a search at which the store may fail. *)
Faults == {"none", "count", "page", "next", "previous"}

SetMin(S) == CHOOSE x \in S : \A y \in S : x <= y

SetMax(S) == CHOOSE x \in S : \A y \in S : x >= y

(* bbox of the response: the envelope of the bboxes of the page's items,  *)
(* None (<<>>) when min() of no values raises ValueError.                 *)
AggregateBbox(rows) ==
  LET xvals == UNION {{rows[k].bbox[1], rows[k].bbox[3]} : k \in 1..Len(rows)}
      yvals == UNION {{rows[k].bbox[2], rows[k].bbox[4]} : k \in 1..Len(rows)}
  IN IF rows = <<>> THEN <<>>
     ELSE <<SetMin(xvals), SetMin(yvals), SetMax(xvals), SetMax(yvals)>>

(* raise DatabaseError: the call returns no envelope. *)
DatabaseError(q) ==
  [resp |-> [status |-> "DatabaseError", features |-> <<>>, next |-> NoToken,
             previous |-> NoToken, context |-> <<>>, bbox |-> <<>>],
   queries |-> q, writes |-> 0]

(* The envelope built from a page. *)
Envelope(req, ctx, count, page, q) ==
  [resp |-> [status |-> "ok",
             features |-> page.rows,
             next |-> IF page.has_next THEN TokenInsert(page.bookmark_next) ELSE NoToken,
             previous |-> IF page.has_previous
                            THEN TokenInsert(page.bookmark_previous) ELSE NoToken,
             context |-> IF ctx
                           THEN <<[returned |-> Len(page.rows), limit |-> req.limit,
                                   matched |-> count]>>
                           ELSE <<>>,
             bbox |-> AggregateBbox(page.rows)],
   queries |-> q, writes |-> 0]

(* matched: len(ids) in the ids branch, the count query otherwise. *)
Count(st, req) ==
  IF req.ids # <<>> THEN Len(req.ids) ELSE Cardinality(SearchQuery(st, req))

(* The token of the request left out of the call of get_page. *)
PageArg_NoToken(req) == <<>>

(* The page argument of get_page: the keyset the token stands for, or the *)
(* first page (False) without token.                                      *)
PageArg(req) ==
  IF req.token # NoToken THEN TokenGet(req.token) ELSE <<>>

(* The count query issued once more when the context is built. *)
QueriesIssued_Recount(countQuery, fetched) ==
  (IF countQuery THEN 1 ELSE 0) + (IF fetched THEN 1 ELSE 0)
    + (IF countQuery /\ fetched THEN 1 ELSE 0)

(* The store queries of a call: the count query when it is made, and the *)
(* page fetch when the call got that far.                                 *)
QueriesIssued(countQuery, fetched) ==
  (IF countQuery THEN 1 ELSE 0) + (IF fetched THEN 1 ELSE 0)

(* A failed token insert swallowed: the envelope goes out without the link. *)
StoreFault_Swallowed(req, ctx, count, page, q) == Envelope(req, ctx, count, page, q)

(* An exception of the count query, the page fetch or a token insert is   *)
(* caught by the except clause around them, which raises DatabaseError.   *)
StoreFault(req, ctx, count, page, q) == DatabaseError(q)

(* What one call of post_search may give, with the store failing at step  *)
(* flt (no outcome when the call does not take that step).                *)
post_search(st, ext, req, flt) ==
  LET token == PageArg(req)
      ctx == "context" \in ext
      countQuery == ctx /\ req.ids = <<>>
      count == Count(st, req)
      pages == get_page(Matching(st, req), OrderCols(req), req.limit, token)
  IN CASE flt = "count" ->
            IF countQuery THEN {DatabaseError(QueriesIssued(countQuery, FALSE))} ELSE {}
       [] flt = "page" -> {DatabaseError(QueriesIssued(countQuery, TRUE))}
       [] flt = "next" ->
            {StoreFault(req, ctx, count, [p EXCEPT !.has_next = FALSE],
                        QueriesIssued(countQuery, TRUE)) :
               p \in {pg \in pages : pg.has_next}}
       [] flt = "previous" ->
            {StoreFault(req, ctx, count, [p EXCEPT !.has_previous = FALSE],
                        QueriesIssued(countQuery, TRUE)) :
               p \in {pg \in pages : pg.has_previous}}
       [] OTHER ->
            {Envelope(req, ctx, count, p, QueriesIssued(countQuery, TRUE)) : p \in pages}

(* ------------------------------ the system ---------------------------- *)
NoRequest ==
  [collections |-> {}, ids |-> <<>>, bbox |-> <<>>, datetime |-> <<>>,
   query |-> <<>>, sortby |-> <<>>, limit |-> 1, token |-> NoToken]

NoResponse ==
  [status |-> "none", features |-> <<>>, next |-> NoToken, previous |-> NoToken,
   context |-> <<>>, bbox |-> <<>>]

(* The stores of at most n items drawn from a set of items: one item for  *)
(* each of at most n (identifier, collection) pairs.                      *)
Stores(items, n) ==
  UNION {{{f[k] : k \in K} :
            f \in {g \in [K -> items] :
                     \A k \in K : g[k].id = k[1] /\ g[k].coll = k[2]}} :
           K \in {J \in SUBSET (Ids \X Colls) : Cardinality(J) <= n}}

(* Items that differ in identifier, collection and timestamp only. *)
PlainItems ==
  {i \in Item : i.bbox = <<0, 0, 1, 1>> /\ i.gsd = 1}

(* The requests of the pagination sessions: collection and ids filters,   *)
(* both sort directions, every limit.                                     *)
PageRequests ==
  {[NoRequest EXCEPT !.collections = c, !.ids = i, !.sortby = s, !.limit = l] :
     c \in {{}, {"c1"}},
     i \in {<<>>, <<1, 2>>},
     s \in {<<>>, <<[field |-> "datetime", dir |-> "asc"]>>},
     l \in 1..MaxLimit}

(* ------------------------- HTTP requests ------------------------------ *)
Requests == 1..MaxRequests

(* A URL is the sequence of its words. *)
NoUrl == <<>>

(* No session: the value of an unset local or context variable. *)
NoSession == [role |-> "none", req |-> 0, n |-> 0]

(* The application has received no HTTP request yet. *)
NoHttpRequest ==
  /\ url = [r \in Requests |-> NoUrl]
  /\ pc = [r \in Requests |-> "idle"]
  /\ outcome = [r \in Requests |-> "none"]
  /\ reader = [r \in Requests |-> NoSession]
  /\ writer = [r \in Requests |-> NoSession]
  /\ READER = [r \in Requests |-> NoSession]
  /\ WRITER = [r \in Requests |-> NoSession]
  /\ sessions = {}
  /\ closed = {}

(* One call of post_search with request req, reached by client move mv.   *)
Call(req, mv, f) ==
  \E out \in post_search(store, extensions, req, f) :
    /\ request' = req
    /\ response' = out.resp
    /\ queries' = out.queries
    /\ writes' = out.writes
    /\ fault' = f
    /\ hist' = IF out.resp.status = "ok"
                 THEN Append(IF mv = "first" THEN <<>> ELSE hist,
                             [move |-> mv, req |-> req, rows |-> out.resp.features,
                              next |-> out.resp.next, previous |-> out.resp.previous,
                              snap |-> store])
                 ELSE IF mv = "first" THEN <<>> ELSE hist
    /\ UNCHANGED <<store, extensions, nInserts>>
    /\ UNCHANGED mwvars

(* The client starts a search: a request without token, during which the *)
(* store may fail at one of the steps flts.  A behaviour follows one      *)
(* pagination session.                                                    *)
Search(req, flts) ==
  /\ response.status = "none"
  /\ \E f \in flts : Call(req, "first", f)

(* The client follows the next link of the last page it got: the same     *)
(* request with the token of the link merged in.                          *)
FollowNext ==
  /\ hist # <<>>
  /\ Len(hist) < MaxSteps
  /\ hist[Len(hist)].next # NoToken
  /\ \E f \in Faults :
       Call([hist[Len(hist)].req EXCEPT !.token = hist[Len(hist)].next], "next", f)

FollowPrevious ==
  /\ hist # <<>>
  /\ Len(hist) < MaxSteps
  /\ hist[Len(hist)].previous # NoToken
  /\ \E f \in Faults :
       Call([hist[Len(hist)].req EXCEPT !.token = hist[Len(hist)].previous],
            "previous", f)

(* The ingestion path inserts an item between two fetches of the session. *)
Insert(item) ==
  /\ nInserts < MaxInserts
  /\ hist # <<>>
  /\ item \notin store
  /\ ValidStore(store \cup {item})
  /\ store' = store \cup {item}
  /\ nInserts' = nInserts + 1
  /\ UNCHANGED <<extensions, request, response, hist, queries, writes, fault>>
  /\ UNCHANGED mwvars

InitWith(stores) ==
  /\ store \in stores
  /\ extensions \in {{}, {"context"}}
  /\ request = NoRequest
  /\ response = NoResponse
  /\ hist = <<>>
  /\ queries = 0
  /\ writes = 0
  /\ fault = "none"
  /\ nInserts = 0
  /\ NoHttpRequest

Init == InitWith(Stores(PlainItems, MaxItems))

Next ==
  \/ \E req \in PageRequests : Search(req, Faults)
  \/ FollowNext
  \/ FollowPrevious
  \/ \E item \in PlainItems : Insert(item)

Spec == Init /\ [][Next]_vars

(* ----------------------- pagination sessions -------------------------- *)
Last == hist[Len(hist)]

(* The store was the same at every fetch of pages a..b of the session. *)
FixedBetween(a, b) == \A k \in a..b : hist[k].snap = hist[a].snap

(* Pages 1..k of the session were fetched forward from the beginning. *)
ForwardUpTo(k) ==
  /\ hist[1].move = "first"
  /\ \A j \in 2..k : hist[j].move = "next"

RECURSIVE Concat(_, _)
Concat(h, k) == IF k = 0 THEN <<>> ELSE Concat(h, k - 1) \o h[k].rows

Range(sq) == {sq[k] : k \in 1..Len(sq)}

(* No two items of the store share an identifier. *)
UniqueIds(st) == \A i, j \in st : i.id = j.id => i = j

(* The rows of the session's search in the store of fetch k, and its order. *)
ResultSet(k) == Matching(hist[k].snap, hist[k].req)

(* Item a sorts strictly after item b in the order of the session. *)
SortsAfter(a, b, req) ==
  After(Marker(a, OrderCols(req)), Marker(b, OrderCols(req)), OrderCols(req))

(* C1: a forward traversal of a fixed result set, from the request without *)
(* token to the page without next link, yields exactly the matching items, *)
(* each once, in an order one unpaginated fetch of the sorted query gives. *)
C1_PaginationComplete ==
  (/\ hist # <<>>
   /\ ForwardUpTo(Len(hist))
   /\ FixedBetween(1, Len(hist))
   /\ Last.next = NoToken)
    => Concat(hist, Len(hist)) \in SortedSeqs(ResultSet(1), OrderCols(hist[1].req))

(* C1 holds of stores in which identifiers are unique across collections. *)
PaginationCompleteUniqueIds ==
  (hist # <<>> /\ UniqueIds(hist[1].snap)) => C1_PaginationComplete

(* The place of the token that page k of the session was fetched with. *)
Bookmark(k) == unserialize_place(TokenGet(hist[k].req.token))

(* C2: when page k is fetched with the next token of page k-1 in a forward *)
(* traversal, with items inserted in between, page k holds no item of an   *)
(* earlier page, and it skips no matching item that was in the store at    *)
(* fetch k-1 and sorts after the bookmark: such an item is in the page, or *)
(* the page is full and ends at or before it.                              *)
C2_InsertsKeepPages ==
  \A k \in 2..Len(hist) :
    ForwardUpTo(k) =>
      /\ \A j \in 1..(k - 1) : Range(hist[k].rows) \cap Range(hist[j].rows) = {}
      /\ \A e \in hist[k - 1].snap \cap ResultSet(k) :
           After(Marker(e, OrderCols(hist[k].req)), Bookmark(k), OrderCols(hist[k].req))
             => \/ e \in Range(hist[k].rows)
                \/ /\ Len(hist[k].rows) = hist[k].req.limit
                   /\ ~SortsAfter(hist[k].rows[Len(hist[k].rows)], e, hist[k].req)

(* A next page fetched after an insert since the page before it, with an   *)
(* item in the store that sorts after the bookmark.                        *)
C2_Witness ==
  \E k \in 2..Len(hist) :
    /\ ForwardUpTo(k)
    /\ hist[k].snap # hist[k - 1].snap
    /\ hist[k].rows # <<>>
    /\ hist[k - 1].snap \cap Range(hist[k].rows) # {}

(* C3: next, then previous, on an unchanging result set gives the first    *)
(* page again: the same items in the same order.                           *)
C3_ForwardBackward ==
  \A k \in 1..(Len(hist) - 2) :
    (/\ hist[k + 1].move = "next"
     /\ hist[k + 2].move = "previous"
     /\ FixedBetween(k, k + 2))
      => hist[k + 2].rows = hist[k].rows

ForwardBackwardUniqueIds ==
  \A k \in 1..(Len(hist) - 2) :
    (/\ hist[k + 1].move = "next"
     /\ hist[k + 2].move = "previous"
     /\ FixedBetween(k, k + 2)
     /\ UniqueIds(hist[k].snap))
      => hist[k + 2].rows = hist[k].rows

(* C4: a page has a next link exactly when a matching item sorts strictly  *)
(* after its last item, and a previous link exactly when a matching item   *)
(* sorts strictly before its first item; an empty page has neither.        *)
LinksAsClaimed(k) ==
  LET rows == hist[k].rows
      req == hist[k].req
  IN IF rows = <<>>
       THEN hist[k].next = NoToken /\ hist[k].previous = NoToken
       ELSE /\ hist[k].next # NoToken
               <=> \E e \in ResultSet(k) : SortsAfter(e, rows[Len(rows)], req)
            /\ hist[k].previous # NoToken
               <=> \E e \in ResultSet(k) : SortsAfter(rows[1], e, req)

C4_LinkPresence == \A k \in 1..Len(hist) : LinksAsClaimed(k)

LinkPresenceUniqueIds ==
  \A k \in 1..Len(hist) : UniqueIds(hist[k].snap) => LinksAsClaimed(k)

(* The ordering the sort is to use: the sortby fields, then the          *)
(* identifier ascending; timestamp descending, then the identifier        *)
(* ascending, without sortby.                                             *)
ClaimedOrder(req) ==
  IF req.sortby # <<>>
    THEN req.sortby \o <<[field |-> "id", dir |-> "asc"]>>
    ELSE <<[field |-> "datetime", dir |-> "desc"], [field |-> "id", dir |-> "asc"]>>

(* C10: every search orders its result set as the sortby fields followed  *)
(* by the identifier ascending (timestamp descending, identifier          *)
(* ascending without sortby), and under that ordering no two distinct     *)
(* items of the result set compare equal.                                 *)
C10_TotalOrder ==
  \A k \in 1..Len(hist) :
    \A a, b \in ResultSet(k) :
      /\ SortsAfter(a, b, hist[k].req)
           <=> After(Marker(a, ClaimedOrder(hist[k].req)),
                     Marker(b, ClaimedOrder(hist[k].req)), ClaimedOrder(hist[k].req))
      /\ a # b => SortsAfter(a, b, hist[k].req) \/ SortsAfter(b, a, hist[k].req)

(* Items with different identifiers never compare equal. *)
TotalOrderUniqueIds ==
  \A k \in 1..Len(hist) :
    \A a, b \in ResultSet(k) :
      /\ SortsAfter(a, b, hist[k].req)
           <=> After(Marker(a, ClaimedOrder(hist[k].req)),
                     Marker(b, ClaimedOrder(hist[k].req)), ClaimedOrder(hist[k].req))
      /\ (a # b /\ a.id # b.id)
        => SortsAfter(a, b, hist[k].req) \/ SortsAfter(b, a, hist[k].req)

(* ------------------------- single searches ---------------------------- *)
(* The datetime intervals that pass validation: not both ends open, and   *)
(* start <= end when both are given.                                      *)
Intervals ==
  {d \in (Times \cup {OPEN}) \X (Times \cup {OPEN}) :
     /\ ~(d[1] = OPEN /\ d[2] = OPEN)
     /\ (d[1] # OPEN /\ d[2] # OPEN) => d[1] <= d[2]}

(* Requests that combine the ids and collections filters with the         *)
(* spatial, temporal and query filters.                                   *)
SearchRequests ==
  {[NoRequest EXCEPT !.collections = c, !.ids = i, !.bbox = b, !.datetime = d,
                     !.query = q, !.limit = l] :
     c \in {{}, {"c1"}},
     i \in {<<>>, <<1>>},
     b \in {<<>>, <<2, 2, 3, 3>>},
     d \in {<<>>} \cup Intervals,
     q \in {<<>>, <<[field |-> "gsd", op |-> "gt", value |-> 1]>>},
     l \in 1..MaxLimit}

InitSearch == InitWith(Stores(Item, MaxItems - 1))

(* Single searches, during which the store does not fail. *)
NextSearch == \E req \in SearchRequests : Search(req, {"none"})

SpecSearch == InitSearch /\ [][NextSearch]_vars

(* The items an ids search is to return: identifier among the ids and,    *)
(* with a collections filter, collection among the collections.           *)
IdsExpected(st, req) ==
  {r \in st : /\ r.id \in Range(req.ids)
              /\ req.collections # {} => r.coll \in req.collections}

(* The request without its spatial, temporal and query filters. *)
IdsOnly(req) == [req EXCEPT !.bbox = <<>>, !.datetime = <<>>, !.query = <<>>]

(* C5: a search with ids returns items among those named by ids (and by   *)
(* collections), all of them when the response has no next link, and the  *)
(* response is one the same request without its bbox, datetime and query  *)
(* filters gives.                                                         *)
C5_IdsPrecedence ==
  (response.status = "ok" /\ request.ids # <<>>)
    => /\ Range(response.features) \subseteq IdsExpected(store, request)
       /\ (request.token = NoToken /\ response.next = NoToken)
            => Range(response.features) = IdsExpected(store, request)
       /\ response \in {o.resp : o \in post_search(store, extensions,
                                                    IdsOnly(request), "none")}

(* An ids search that returned an item its bbox, datetime or query filter *)
(* would have excluded.                                                   *)
C5_Witness ==
  /\ response.status = "ok"
  /\ request.ids # <<>>
  /\ request.bbox # <<>> /\ request.datetime # <<>> /\ request.query # <<>>
  /\ \E r \in Range(response.features) :
       /\ r \notin SpatialFilter(store, request)
       /\ r \notin TemporalFilter(store, request)
       /\ r \notin QueryFilter(store, request)

(* C6: with the context extension, matched is the number of items of the  *)
(* store that satisfy the predicate of the request, and returned is the   *)
(* number of features, at most limit.                                     *)
C6_MatchedCount ==
  (response.status = "ok" /\ "context" \in extensions)
    => /\ response.context # <<>>
       /\ response.context[1].matched = Cardinality(Matching(store, request))
       /\ response.context[1].returned = Len(response.features)
       /\ response.context[1].returned <= request.limit

(* The three-case policy of a datetime interval. *)
TemporalPolicy(d, t) ==
  CASE d[1] # OPEN /\ d[2] # OPEN -> d[1] <= t /\ t <= d[2]
    [] d[1] = OPEN /\ d[2] # OPEN -> t <= d[2]
    [] d[1] # OPEN /\ d[2] = OPEN -> t >= d[1]

(* The rows the other filters of a search without ids keep. *)
OtherFilters(st, req) == SearchQuery(st, [req EXCEPT !.datetime = <<>>])

(* C7: in a search without ids and with a datetime interval, the filters  *)
(* applied in sequence keep the items the three-case policy keeps: every  *)
(* returned item satisfies the policy, and a response without next link   *)
(* holds every item that satisfies the policy and the other filters.      *)
C7_TemporalPolicy ==
  (response.status = "ok" /\ request.ids = <<>> /\ request.datetime # <<>>)
    => /\ TemporalFilter(store, request)
            = {r \in store : TemporalPolicy(request.datetime, r.dt)}
       /\ \A r \in Range(response.features) : TemporalPolicy(request.datetime, r.dt)
       /\ (request.token = NoToken /\ response.next = NoToken)
            => Range(response.features)
                 = {r \in OtherFilters(store, request) :
                      TemporalPolicy(request.datetime, r.dt)}

(* A search with an interval that kept one item and dropped another. *)
C7_Witness ==
  /\ response.status = "ok"
  /\ request.ids = <<>>
  /\ request.datetime # <<>>
  /\ response.features # <<>>
  /\ \E r \in OtherFilters(store, request) : ~TemporalPolicy(request.datetime, r.dt)

(* A step that is a call of post_search (the other steps are inserts of   *)
(* the ingestion path).                                                   *)
SearchStep == nInserts' = nInserts

(* C8: a call of post_search leaves the store as it was, writes nothing   *)
(* to it and issues at most two queries, whatever token it was given and  *)
(* whatever tokens it returns.                                            *)
C8_ReadOnlyTwoQueries ==
  [][SearchStep => (store' = store /\ writes' = 0 /\ queries' <= 2)]_vars

(* A call with a token that returned both tokens after two queries. *)
C8_Witness ==
  /\ response.status = "ok"
  /\ request.token # NoToken
  /\ response.next # NoToken
  /\ response.previous # NoToken
  /\ queries = 2

(* C9: when the count query, the page fetch or a token insert fails, the  *)
(* call ends with DatabaseError and no envelope, having issued each query *)
(* once; tokens are only in responses of calls in which nothing failed.   *)
C9_FailureGivesNoToken ==
  /\ fault # "none"
       => /\ response.status = "DatabaseError"
          /\ response.features = <<>>
          /\ response.next = NoToken /\ response.previous = NoToken
          /\ queries = (IF "context" \in extensions /\ request.ids = <<>> THEN 1 ELSE 0)
                         + (IF fault = "count" THEN 0 ELSE 1)
  /\ (response.next # NoToken \/ response.previous # NoToken)
       => (fault = "none" /\ response.status = "ok")

(* A call with a token in which the insert of the previous token failed   *)
(* after the page was fetched.                                            *)
C9_Witness ==
  /\ fault = "previous"
  /\ response.status = "DatabaseError"
  /\ request.token # NoToken
  /\ hist # <<>>

(* ------------------------- order of ids searches ---------------------- *)
(* C11: the items an ids search returns are ordered by identifier         *)
(* ascending only: neither the default sort by timestamp nor a sortby of  *)
(* the request moves an item with a larger identifier before one with a   *)
(* smaller identifier.                                                    *)
C11_IdsOrderById ==
  \A k \in 1..Len(hist) :
    hist[k].req.ids # <<>>
      => \A i, j \in 1..Len(hist[k].rows) :
           i < j => hist[k].rows[i].id <= hist[k].rows[j].id

(* The pages of an ids search are ordered by the sort of the request      *)
(* first (sortby, or timestamp descending), and by identifier after it.   *)
IdsOrderBySortThenId ==
  \A k \in 1..Len(hist) :
    hist[k].req.ids # <<>>
      => \A i, j \in 1..Len(hist[k].rows) :
           i < j => ~After(Marker(hist[k].rows[i], ClaimedOrder(hist[k].req)),
                           Marker(hist[k].rows[j], ClaimedOrder(hist[k].req)),
                           ClaimedOrder(hist[k].req))

(* --------------------------- aggregate bbox --------------------------- *)
(* The x and y values of the bboxes of the features of the response. *)
PageX == UNION {{f.bbox[1], f.bbox[3]} : f \in Range(response.features)}

PageY == UNION {{f.bbox[2], f.bbox[4]} : f \in Range(response.features)}

(* b is the envelope of the bboxes of the features: each bound is one of  *)
(* their values and no value lies outside it.                             *)
IsPageEnvelope(b) ==
  /\ b # <<>>
  /\ b[1] \in PageX /\ \A x \in PageX : b[1] <= x
  /\ b[2] \in PageY /\ \A y \in PageY : b[2] <= y
  /\ b[3] \in PageX /\ \A x \in PageX : b[3] >= x
  /\ b[4] \in PageY /\ \A y \in PageY : b[4] >= y

(* C12: the bbox of a response is the envelope of the bboxes of the items *)
(* of its page, and of no other item; a search whose page is empty ends   *)
(* well, with no bbox, no features and no pagination links.               *)
C12_AggregateBbox ==
  response.status = "ok"
    => IF response.features = <<>>
         THEN /\ response.bbox = <<>>
              /\ response.next = NoToken /\ response.previous = NoToken
         ELSE IsPageEnvelope(response.bbox)

(* The same, with the links of an empty page left to the requests without *)
(* token.                                                                 *)
BboxOfPageOnly ==
  response.status = "ok"
    => IF response.features = <<>>
         THEN /\ response.bbox = <<>>
              /\ request.token = NoToken
                   => response.next = NoToken /\ response.previous = NoToken
         ELSE IsPageEnvelope(response.bbox)

(* A page whose bbox leaves out a matching item that is not in the page. *)
BboxNarrowerThanMatches ==
  /\ response.status = "ok"
  /\ response.features # <<>>
  /\ \E r \in Matching(store, request) :
       r \notin Range(response.features) /\ r.bbox[3] > response.bbox[3]

(* C12's statement for the stores whose identifiers are unique. *)
AggregateBboxUniqueIds == UniqueIds(store) => C12_AggregateBbox

(* ----------------------- create_db_connection ------------------------- *)
Urls == {<<"search">>, <<"collections", "titiler", "items">>, <<"titiler", "tiles">>}

(* "titiler" in str(request.url) *)
IsTitiler(u) == \E k \in 1..Len(u) : u[k] = "titiler"

(* DB_READER() and DB_WRITER(): a new session, made for request r. *)
sessionmaker(rl, r) ==
  [role |-> rl, req |-> r, n |-> Cardinality({s \in sessions : s.req = r}) + 1]

(* Where the middleware goes on when call_next is over: the finally       *)
(* clause only after a handler that returned.                             *)
AfterCallNext_NoFinally(u, o) ==
  IF IsTitiler(u) \/ o = "raised" THEN "done" ELSE "close_reader"

(* Where the middleware goes on when call_next is over: a titiler request *)
(* is done, any other runs the finally clause, however the handler ended. *)
AfterCallNext(u, o) ==
  IF IsTitiler(u) THEN "done" ELSE "close_reader"

(* The application receives request r for URL u and the middleware tests  *)
(* the URL: a titiler request goes to its handler at once.                *)
Receive(r, u) ==
  /\ pc[r] = "idle"
  /\ url' = [url EXCEPT ![r] = u]
  /\ pc' = [pc EXCEPT ![r] = IF IsTitiler(u) THEN "call_next" ELSE "open_reader"]
  /\ UNCHANGED <<outcome, reader, writer, READER, WRITER, sessions, closed>>
  /\ UNCHANGED searchvars

(* reader = request.app.state.DB_READER() *)
OpenReader(r) ==
  /\ pc[r] = "open_reader"
  /\ reader' = [reader EXCEPT ![r] = sessionmaker("reader", r)]
  /\ sessions' = sessions \cup {sessionmaker("reader", r)}
  /\ pc' = [pc EXCEPT ![r] = "open_writer"]
  /\ UNCHANGED <<url, outcome, writer, READER, WRITER, closed>>
  /\ UNCHANGED searchvars

(* writer = request.app.state.DB_WRITER() *)
OpenWriter(r) ==
  /\ pc[r] = "open_writer"
  /\ writer' = [writer EXCEPT ![r] = sessionmaker("writer", r)]
  /\ sessions' = sessions \cup {sessionmaker("writer", r)}
  /\ pc' = [pc EXCEPT ![r] = "set_context"]
  /\ UNCHANGED <<url, outcome, reader, READER, WRITER, closed>>
  /\ UNCHANGED searchvars

(* READER.set(reader); WRITER.set(writer); then call_next is awaited. *)
SetContext(r) ==
  /\ pc[r] = "set_context"
  /\ READER' = [READER EXCEPT ![r] = reader[r]]
  /\ WRITER' = [WRITER EXCEPT ![r] = writer[r]]
  /\ pc' = [pc EXCEPT ![r] = "call_next"]
  /\ UNCHANGED <<url, outcome, reader, writer, sessions, closed>>
  /\ UNCHANGED searchvars

(* await call_next(request) is over: the handler returned a response or   *)
(* raised.                                                                *)
CallNext(r, o) ==
  /\ pc[r] = "call_next"
  /\ outcome' = [outcome EXCEPT ![r] = o]
  /\ pc' = [pc EXCEPT ![r] = AfterCallNext(url[r], o)]
  /\ UNCHANGED <<url, reader, writer, READER, WRITER, sessions, closed>>
  /\ UNCHANGED searchvars

(* reader.close() *)
CloseReader(r) ==
  /\ pc[r] = "close_reader"
  /\ closed' = closed \cup {reader[r]}
  /\ pc' = [pc EXCEPT ![r] = "close_writer"]
  /\ UNCHANGED <<url, outcome, reader, writer, READER, WRITER, sessions>>
  /\ UNCHANGED searchvars

(* writer.close(); then the response is returned or the exception goes on. *)
CloseWriter(r) ==
  /\ pc[r] = "close_writer"
  /\ closed' = closed \cup {writer[r]}
  /\ pc' = [pc EXCEPT ![r] = "done"]
  /\ UNCHANGED <<url, outcome, reader, writer, READER, WRITER, sessions>>
  /\ UNCHANGED searchvars

(* The middleware serving HTTP requests, over an empty store. *)
InitSession == InitWith({{}}) /\ extensions = {}

NextSession ==
  \E r \in Requests :
    \/ \E u \in Urls : Receive(r, u)
    \/ OpenReader(r)
    \/ OpenWriter(r)
    \/ SetContext(r)
    \/ \E o \in {"returned", "raised"} : CallNext(r, o)
    \/ CloseReader(r)
    \/ CloseWriter(r)

SpecSession == InitSession /\ [][NextSession]_vars

(* The sessions made for request r in role rl that are open. *)
OpenFor(r, rl) == {s \in sessions \ closed : s.req = r /\ s.role = rl}

(* The handler of request r is running. *)
HandlerRuns(r) == pc[r] = "call_next"

(* C13: while the handler of a request whose URL does not contain         *)
(* "titiler" runs, one reader and one writer session made for the request *)
(* are open, they are all the sessions made for it, and they are the ones *)
(* the context variables hold; when the request is over, its handler      *)
(* having returned or raised, no session made for it is open; a request   *)
(* whose URL contains "titiler" has no session made for it.               *)
C13_SessionLifecycle ==
  \A r \in Requests :
    /\ (HandlerRuns(r) /\ ~IsTitiler(url[r]))
         => /\ Cardinality(OpenFor(r, "reader")) = 1
            /\ Cardinality(OpenFor(r, "writer")) = 1
            /\ Cardinality({s \in sessions : s.req = r}) = 2
            /\ OpenFor(r, "reader") = {READER[r]}
            /\ OpenFor(r, "writer") = {WRITER[r]}
    /\ pc[r] = "done"
         => /\ outcome[r] \in {"returned", "raised"}
            /\ {s \in sessions \ closed : s.req = r} = {}
    /\ (pc[r] # "idle" /\ IsTitiler(url[r]))
         => {s \in sessions : s.req = r} = {}

(* A request whose handler raised is over, both its sessions closed, next *)
(* to a titiler request that is over and a request whose handler runs     *)
(* with its sessions open.                                                *)
C13_Witness ==
  \E r, t, h \in Requests :
    /\ ~IsTitiler(url[r]) /\ pc[r] = "done" /\ outcome[r] = "raised"
    /\ Cardinality({s \in closed : s.req = r}) = 2
    /\ IsTitiler(url[t]) /\ pc[t] = "done"
    /\ ~IsTitiler(url[h]) /\ HandlerRuns(h) /\ OpenFor(h, "reader") # {}

====
